---------------------------- MODULE Spec2Model ----------------------------
(***************************************************************************)
(* Model of t.sim.flood (itzi): the command-line front end that validates  *)
(* the time options, the map names and the numerical parameters, then      *)
(* builds the simulation and runs it.                                      *)
(*                                                                         *)
(* Text that the program parses character by character (time options and   *)
(* numerical parameters) is a sequence of one-character strings; map names *)
(* are opaque and are plain strings.                                       *)
(*   timedelta : <<days, seconds>>, 0 <= seconds < 86400 (Python's         *)
(*               normalised form, microseconds are always 0 here)          *)
(*   datetime  : <<proleptic Gregorian ordinal, second of the day>>        *)
(***************************************************************************)
EXTENDS Integers, Sequences, FiniteSets, TLC

VARIABLES
    opts,               \* options as returned by grass.parser()
    env,                \* what the GRASS session answers: latlong, overwrite,
                        \* existing maps / stds, iteration order of the options
    pc,                 \* position in main()
    err,                \* the message the program ended with (<<>> if none)
    input_times,        \* dict of main(), line 264
    input_map_names,    \* dict of main(), lines 265-268
    output_map_names,   \* dict of main(), lines 269-270
    sim_param,          \* dict of main(), line 263
    sim,                \* the SuperficialFlowSimulation object (None before line 278)
    clock               \* ClockState of the run loop

vars == <<opts, env, pc, err, input_times, input_map_names, output_map_names,
          sim_param, sim, clock>>

-----------------------------------------------------------------------------
(* Bounds of the model *)

\* largest number of ':'-separated fields of a generated record_step string
MaxFields == 4
\* largest step (seconds) the solver's stability query suggests
MaxSolverDt == 8

-----------------------------------------------------------------------------
(* Python values *)

\* None as the value of an input_times entry or of sim
None == <<>>
\* None as the value of a map-name entry ('<' cannot occur in a GRASS name)
NoneName == "<None>"

SecPerDay == 24 * 3600

Digits == {"0", "1", "2", "3", "4", "5", "6", "7", "8", "9"}

DigitVal(c) ==
    CASE c = "0" -> 0 [] c = "1" -> 1 [] c = "2" -> 2 [] c = "3" -> 3
      [] c = "4" -> 4 [] c = "5" -> 5 [] c = "6" -> 6 [] c = "7" -> 7
      [] c = "8" -> 8 [] c = "9" -> 9

AllDigits(s) == Len(s) > 0 /\ \A i \in 1..Len(s) : s[i] \in Digits

RECURSIVE DecimalVal(_)
DecimalVal(s) ==
    IF s = <<>> THEN 0
    ELSE DecimalVal(SubSeq(s, 1, Len(s) - 1)) * 10 + DigitVal(s[Len(s)])

\* str.strip(): leading and trailing blanks removed
RECURSIVE strip(_)
strip(s) ==
    IF s = <<>> THEN s
    ELSE IF s[1] = " " THEN strip(Tail(s))
    ELSE IF s[Len(s)] = " " THEN strip(SubSeq(s, 1, Len(s) - 1))
    ELSE s

\* str.split(sep): one more field than there are separators
RECURSIVE split(_, _)
split(s, sep) ==
    IF \A i \in 1..Len(s) : s[i] # sep THEN <<s>>
    ELSE LET i == CHOOSE i \in 1..Len(s) :
                      s[i] = sep /\ \A j \in 1..(i - 1) : s[j] # sep
         IN  <<SubSeq(s, 1, i - 1)>> \o split(SubSeq(s, i + 1, Len(s)), sep)

\* the result of a call that may raise
Raise == [ok |-> FALSE, val |-> None]
Return(v) == [ok |-> TRUE, val |-> v]

\* int(text), base 10: blanks stripped, an optional sign, at least one digit
int(text) ==
    LET t    == strip(text)
        sgn  == t # <<>> /\ t[1] \in {"+", "-"}
        body == IF sgn THEN Tail(t) ELSE t
    IN  IF ~AllDigits(body) THEN Raise
        ELSE IF sgn /\ t[1] = "-" THEN Return(0 - DecimalVal(body))
        ELSE Return(DecimalVal(body))

\* timedelta(hours=, minutes=, seconds=), normalised
timedelta(hours, minutes, seconds) ==
    LET total == hours * 3600 + minutes * 60 + seconds
    IN  <<total \div SecPerDay, total % SecPerDay>>

total_seconds(td) == td[1] * SecPerDay + td[2]

\* datetime - datetime
datetime_sub(a, b) ==
    LET d == a[1] - b[1]
        s == a[2] - b[2]
    IN  IF s < 0 THEN <<d - 1, s + SecPerDay>> ELSE <<d, s>>

\* datetime + timedelta (also timedelta + timedelta)
datetime_add(a, td) ==
    LET s == a[2] + td[2]
    IN  <<a[1] + td[1] + (s \div SecPerDay), s % SecPerDay>>

\* a < b on datetimes and on timedeltas
before(a, b) == a[1] < b[1] \/ (a[1] = b[1] /\ a[2] < b[2])

\* datetime.min, 0001-01-01 00:00
datetime_min == <<1, 0>>

IsLeap(y) == y % 4 = 0 /\ (y % 100 # 0 \/ y % 400 = 0)

DaysInMonth(y, m) ==
    IF m = 2 THEN (IF IsLeap(y) THEN 29 ELSE 28)
    ELSE IF m \in {4, 6, 9, 11} THEN 30 ELSE 31

RECURSIVE DaysBeforeMonth(_, _)
DaysBeforeMonth(y, m) ==
    IF m = 1 THEN 0 ELSE DaysBeforeMonth(y, m - 1) + DaysInMonth(y, m - 1)

DaysBeforeYear(y) ==
    (y - 1) * 365 + ((y - 1) \div 4) - ((y - 1) \div 100) + ((y - 1) \div 400)

\* datetime(y, m, d, H, M)
datetime(y, m, d, H, M) ==
    <<DaysBeforeYear(y) + DaysBeforeMonth(y, m) + d, H * 3600 + M * 60>>

\* one or two digits
ShortNumber(s) == Len(s) \in {1, 2} /\ AllDigits(s)

\* datetime.strptime(text, '%Y-%m-%d %H:%M'): four digits of year, then one
\* or two digits for each other field, blanks between date and time, nothing
\* before or after; the fields must name an existing minute.  (strptime also
\* takes a one-digit day written ' d'; no value drawn here has that form.)
strptime(text) ==
    LET parts == split(text, " ")
        n     == Len(parts)
        date  == split(parts[1], "-")
        time  == split(parts[n], ":")
    IN  IF n < 2 \/ (\E i \in 2..(n - 1) : parts[i] # <<>>) THEN Raise
        ELSE IF Len(date) # 3 \/ Len(time) # 2 THEN Raise
        ELSE IF ~(Len(date[1]) = 4 /\ AllDigits(date[1])) THEN Raise
        ELSE IF ~(ShortNumber(date[2]) /\ ShortNumber(date[3])) THEN Raise
        ELSE IF ~(ShortNumber(time[1]) /\ ShortNumber(time[2])) THEN Raise
        ELSE LET y == DecimalVal(date[1])
                 m == DecimalVal(date[2])
                 d == DecimalVal(date[3])
                 H == DecimalVal(time[1])
                 M == DecimalVal(time[2])
             IN  IF y < 1 \/ m \notin 1..12 \/ H > 23 \/ M > 59 THEN Raise
                 ELSE IF d \notin 1..DaysInMonth(y, m) THEN Raise
                 ELSE Return(datetime(y, m, d, H, M))

-----------------------------------------------------------------------------
(* The options and the dictionaries of main() *)

InputKeys == {"in_z", "in_n", "in_h", "in_rain", "in_inf", "in_eff_por",
              "in_cap_pressure", "in_hyd_conduct", "in_q", "in_bcval",
              "in_bctype"}
OutputKeys == {"out_h", "out_wse", "out_vx", "out_vy", "out_qx", "out_qy"}
ParamKeys == {"hmin", "cfl", "theta", "vrouting", "dtmax", "slmax"}
TimeKeys == {"start_time", "end_time", "sim_duration", "record_step"}

\* the keys the option declarations (lines 45-231) give to grass.parser():
\* out_vx, out_vy are commented out, out_qx, out_qy are not declared
NameOptKeys == InputKeys \cup {"out_h", "out_wse", "param_file", "stats_file"}
TextOptKeys == ParamKeys \cup TimeKeys
OptKeys == NameOptKeys \cup TextOptKeys

\* line 263, in thousandths
sim_param_default ==
    [hmin |-> 5, cfl |-> 700, theta |-> 900, vrouting |-> 100,
     dtmax |-> 5000, slmax |-> 500]
\* line 264
input_times_default ==
    [start |-> None, end |-> None, duration |-> None, rec_step |-> None]
\* lines 265-268
input_map_names_default == [k \in InputKeys |-> NoneName]
\* lines 269-270
output_map_names_default == [k \in OutputKeys |-> NoneName]

values(d) == {d[k] : k \in DOMAIN d}

-----------------------------------------------------------------------------
(* str_to_timedelta, lines 307-322 *)

\* lines 315-318: the range checks on the three numbers
hms_in_range(hours, minutes, seconds) ==
    /\ ~(hours < 0)
    /\ ~(~(0 <= minutes /\ minutes <= 59) \/ ~(0 <= seconds /\ seconds <= 59))

str_to_timedelta(inp_str) ==
    LET data == split(inp_str, ":")
    IN  IF Len(data) < 3 THEN Raise                   \* IndexError on data[i]
        ELSE LET hours   == int(data[1])
                 minutes == int(data[2])
                 seconds == int(data[3])
             IN  IF ~hours.ok \/ ~minutes.ok \/ ~seconds.ok THEN Raise
                 ELSE IF ~hms_in_range(hours.val, minutes.val, seconds.val)
                      THEN Raise
                 ELSE Return(timedelta(hours.val, minutes.val, seconds.val))

-----------------------------------------------------------------------------
(* read_input_time, lines 324-370 *)

rel_err_msg(k) == <<k, "format should be HH:MM:SS">>
abs_err_msg(k) == <<k, "format should be yyyy-mm-dd HH:MM">>
comb_err_msg == <<"accepted combinations",
                  "sim_duration alone, start_time and sim_duration, start_time and end_time">>

\* msgr.fatal(msg) ends the program; the dictionaries are as they were then
Fatal(msg, times) == [fatal |-> msg, times |-> times]
Done(times) == [fatal |-> <<>>, times |-> times]

\* lines 340-346 with "and not opts['end_time']" left out of b_start_dur
valid_combination_overspecified(o) ==
    LET given(k)    == o[k] # <<>>
        b_dur       == given("sim_duration") /\ ~given("start_time")
                          /\ ~given("end_time")
        b_start_dur == given("start_time") /\ given("sim_duration")
        b_start_end == given("start_time") /\ given("end_time")
                          /\ ~given("sim_duration")
    IN  b_dur \/ b_start_dur \/ b_start_end

\* lines 340-346
valid_combination(o) ==
    LET given(k)    == o[k] # <<>>
        b_dur       == given("sim_duration") /\ ~given("start_time")
                          /\ ~given("end_time")
        b_start_dur == given("start_time") /\ given("sim_duration")
                          /\ ~given("end_time")
        b_start_end == given("start_time") /\ given("end_time")
                          /\ ~given("sim_duration")
    IN  b_dur \/ b_start_dur \/ b_start_end

\* line 370 with the operands exchanged
derived_duration_swapped(times) == datetime_sub(times.start, times.end)

\* line 370
derived_duration(times) == datetime_sub(times.end, times.start)

\* line 362
default_start == datetime_min

read_input_time(o, times0) ==
    LET rec == str_to_timedelta(o["record_step"])
        t1  == [times0 EXCEPT !.rec_step = rec.val]
        e   == strptime(o["end_time"])
        t2  == IF o["end_time"] # <<>> THEN [t1 EXCEPT !.end = e.val] ELSE t1
        s   == strptime(o["start_time"])
        t3  == IF o["start_time"] # <<>> THEN [t2 EXCEPT !.start = s.val]
               ELSE [t2 EXCEPT !.start = default_start]
        d   == str_to_timedelta(o["sim_duration"])
    IN  IF ~rec.ok THEN Fatal(rel_err_msg("record_step"), times0)
        ELSE IF ~valid_combination(o) THEN Fatal(comb_err_msg, t1)
        ELSE IF o["end_time"] # <<>> /\ ~e.ok
             THEN Fatal(abs_err_msg("end_time"), t1)
        ELSE IF o["start_time"] # <<>> /\ ~s.ok
             THEN Fatal(abs_err_msg("start_time"), t2)
        ELSE IF o["sim_duration"] # <<>>
             THEN IF ~d.ok THEN Fatal(rel_err_msg("sim_duration"), t3)
                  ELSE Done([t3 EXCEPT !.duration = d.val])
        ELSE Done([t3 EXCEPT !.duration = derived_duration(t3)])

-----------------------------------------------------------------------------
(* file_exist and read_maps_names, lines 299-305 and 372-394 *)

\* gis.Igis.format_id: the name qualified by the current mapset
format_id(e, name) == <<name, e.mapset>>
\* gis.Igis.name_is_map, gis.Igis.name_is_stds
name_is_map(e, map_id) == map_id \in e.maps
name_is_stds(e, map_id) == map_id \in e.stds

\* lines 299-305 without the test for a space-time dataset
file_exist_maps_only(e, map_id) ==
    IF name_is_map(e, map_id) THEN TRUE ELSE FALSE

\* lines 299-305
file_exist(e, map_id) ==
    IF name_is_map(e, map_id) \/ name_is_stds(e, map_id) THEN TRUE ELSE FALSE

\* line 379 with "not" left out
output_refused_inverted(e, v) == file_exist(e, format_id(e, v)) /\ e.overwrite

\* line 379
output_refused(e, v) == file_exist(e, format_id(e, v)) /\ ~e.overwrite

exists_msg(v) == <<"File exists and will not be overwritten", v>>
incompatible_msg == <<"Infiltration model incompatible with user-defined rate">>
inclusive_msg == <<"in_eff_por, in_cap_pressure, in_hyd_conduct are mutualy inclusive">>

ga_list == <<"in_eff_por", "in_cap_pressure", "in_hyd_conduct">>

MapsResult(msg, inm, outm) == [fatal |-> msg, inm |-> inm, outm |-> outm]

\* lines 375-382, over the remaining items of opt.iteritems()
RECURSIVE names_loop(_, _, _, _, _)
names_loop(o, e, items, inm, outm) ==
    IF items = <<>> THEN MapsResult(<<>>, inm, outm)
    ELSE LET k    == Head(items)
             v    == o[k]
             inm1 == IF k \in DOMAIN inm /\ v # "" THEN [inm EXCEPT ![k] = v]
                     ELSE inm
         IN  IF k \in DOMAIN outm /\ v # ""
             THEN IF output_refused(e, v)
                  THEN MapsResult(exists_msg(v), inm1, outm)
                  ELSE names_loop(o, e, Tail(items), inm1,
                                  [outm EXCEPT ![k] = v])
             ELSE names_loop(o, e, Tail(items), inm1, outm)

\* lines 385-389: every iteration assigns ga_bool, the last one stands
RECURSIVE ga_loop(_, _, _)
ga_loop(list, inm, ga_bool) ==
    IF list = <<>> THEN ga_bool
    ELSE ga_loop(Tail(list), inm, Head(list) \in values(inm))

\* line 390
rate_conflict(inm, ga_bool) == "in_f" \in values(inm) /\ ga_bool

\* line 393
group_incomplete(inm, ga_bool) ==
    ga_bool /\ ~(\A i \in 1..Len(ga_list) : ga_list[i] \in values(inm))

read_maps_names(o, e, inm0, outm0) ==
    LET r       == names_loop(o, e, e.order, inm0, outm0)
        ga_bool == ga_loop(ga_list, r.inm, FALSE)
    IN  IF r.fatal # <<>> THEN r
        ELSE IF rate_conflict(r.inm, ga_bool)
             THEN MapsResult(incompatible_msg, r.inm, r.outm)
        ELSE IF group_incomplete(r.inm, ga_bool)
             THEN MapsResult(inclusive_msg, r.inm, r.outm)
        ELSE r

-----------------------------------------------------------------------------
(* read_sim_param, lines 396-401 *)

\* up to three decimals of a fraction, in thousandths
Thousandths(frac) ==
    DecimalVal(SubSeq(frac \o <<"0", "0", "0">>, 1, 3))

\* float(text) of a decimal numeral, in thousandths: blanks stripped, an
\* optional sign, digits with an optional fraction.  (float also takes
\* exponents, 'inf' and 'nan'; no value drawn here has those forms.)
float(text) ==
    LET t     == strip(text)
        sgn   == t # <<>> /\ t[1] \in {"+", "-"}
        body  == IF sgn THEN Tail(t) ELSE t
        parts == split(body, ".")
        whole == parts[1]
        frac  == IF Len(parts) = 2 THEN parts[2] ELSE <<>>
        ok    == /\ Len(parts) <= 2
                 /\ whole \o frac # <<>>
                 /\ \A i \in 1..Len(whole \o frac) : (whole \o frac)[i] \in Digits
        mag   == DecimalVal(whole) * 1000 + Thousandths(frac)
    IN  IF ~ok THEN Raise
        ELSE IF sgn /\ t[1] = "-" THEN Return(0 - mag)
        ELSE Return(mag)

ParamResult(raised, param) == [raised |-> raised, param |-> param]

\* lines 399-401, over the remaining items of opt.iteritems()
RECURSIVE read_sim_param(_, _, _)
read_sim_param(o, items, param) ==
    IF items = <<>> THEN ParamResult(FALSE, param)
    ELSE LET k == Head(items)
             v == o[k]
         IN  IF k \in DOMAIN param /\ v # <<>>
             THEN IF ~float(v).ok THEN ParamResult(TRUE, param)
                  ELSE read_sim_param(o, Tail(items),
                                      [param EXCEPT ![k] = float(v).val])
             ELSE read_sim_param(o, Tail(items), param)

-----------------------------------------------------------------------------
(* simulation.SuperficialFlowSimulation: the resolved time window and the  *)
(* run loop (the simulation clock)                                         *)

Min(S) == CHOOSE x \in S : \A y \in S : x <= y

\* the object built at lines 278-287; a window given by start and duration
\* is completed with end = start + duration, and every time-varying input
\* is resolved to the instants at which its value changes
SuperficialFlowSimulation(times, inm, outm, param, e) ==
    [start_time   |-> times.start,
     end_time     |-> IF times.end = None
                      THEN datetime_add(times.start, times.duration)
                      ELSE times.end,
     sim_duration |-> times.duration,
     record_step  |-> times.rec_step,
     input_maps   |-> inm,
     output_maps  |-> outm,
     sim_param    |-> param,
     valid_from   |-> {datetime_add(times.start, <<0, off>>) :
                          off \in e.series_offsets}]

ClockIdle ==
    [state |-> "Idle", current_time |-> None, next_record_boundary |-> None,
     last_step_dt |-> 0, step_count |-> 0, flushed |-> <<>>]

\* Idle -> Running: current_time := start, next_record_boundary := start +
\* record_step, the first boundary after start (with a zero record_step no
\* boundary lies after start, and the boundary stays on start)
ClockStart(sm) ==
    [ClockIdle EXCEPT !.state = "Running",
                      !.current_time = sm.start_time,
                      !.next_record_boundary =
                          datetime_add(sm.start_time, sm.record_step)]

\* seconds from instant a to the later instant b
gap(a, b) == total_seconds(datetime_sub(b, a))

\* smallest positive gap to the next valid_from of any series
series_gaps(sm, now) == {gap(now, v) : v \in {w \in sm.valid_from : before(now, w)}}

\* step 3 without the record boundary
clamp_without_boundary(sm, c, dt_candidate) ==
    Min({dt_candidate, sm.sim_param.dtmax \div 1000}
        \cup series_gaps(sm, c.current_time))

\* step 3: dt := min(dt_candidate, dtmax, next_record_boundary - current_time,
\*                   time_to_next_series_change), in whole seconds
clamp(sm, c, dt_candidate) ==
    Min({dt_candidate, sm.sim_param.dtmax \div 1000,
         gap(c.current_time, c.next_record_boundary)}
        \cup series_gaps(sm, c.current_time))

\* steps 5 and 6: advance the clock, Flushing when the boundary is reached
advance(c, dt) ==
    LET now == datetime_add(c.current_time, <<0, dt>>)
    IN  [c EXCEPT !.current_time = now,
                  !.last_step_dt = dt,
                  !.step_count = @ + 1,
                  !.state = IF now = c.next_record_boundary THEN "Flushing"
                            ELSE "Running"]

\* step 6: next_record_boundary += record_step, "stopping once it would
\* exceed end".  The sentence is read in two ways, and a run follows one:
\*   "stop"    the boundary is not moved past end
\*   "through" the boundary moves until it is at or after end (the sequence
\*             of boundaries of the output scheduler)
next_boundary(sm, c, rule) ==
    LET moved == datetime_add(c.next_record_boundary, sm.record_step)
    IN  IF rule = "stop"
        THEN IF before(sm.end_time, moved) THEN c.next_record_boundary
             ELSE moved
        ELSE IF before(c.next_record_boundary, sm.end_time) THEN moved
             ELSE c.next_record_boundary

\* Flushing -> Running
flush(sm, c, rule) ==
    [c EXCEPT !.flushed = Append(@, c.current_time),
              !.next_record_boundary = next_boundary(sm, c, rule),
              !.state = "Running"]

-----------------------------------------------------------------------------
(* main, lines 249-297 *)

latlong_msg == <<"latlong location is not supported">>

\* msgr.fatal: the message is sent and the program exits
Exit(msg) == pc' = "exit" /\ err' = msg

\* lines 258-270
CheckLocation ==
    /\ pc = "main"
    /\ IF env.latlong THEN Exit(latlong_msg)
       ELSE pc' = "read_input_time" /\ err' = err
    /\ UNCHANGED <<opts, env, input_times, input_map_names, output_map_names,
                   sim_param, sim, clock>>

\* line 273
ReadInputTime ==
    /\ pc = "read_input_time"
    /\ LET r == read_input_time(opts, input_times)
       IN  /\ input_times' = r.times
           /\ IF r.fatal # <<>> THEN Exit(r.fatal)
              ELSE pc' = "read_maps_names" /\ err' = err
    /\ UNCHANGED <<opts, env, input_map_names, output_map_names, sim_param,
                   sim, clock>>

\* line 274
ReadMapsNames ==
    /\ pc = "read_maps_names"
    /\ LET r == read_maps_names(opts, env, input_map_names, output_map_names)
       IN  /\ input_map_names' = r.inm
           /\ output_map_names' = r.outm
           /\ IF r.fatal # <<>> THEN Exit(r.fatal)
              ELSE pc' = "read_sim_param" /\ err' = err
    /\ UNCHANGED <<opts, env, input_times, sim_param, sim, clock>>

\* line 275; float() raising ValueError is not caught
ReadSimParam ==
    /\ pc = "read_sim_param"
    /\ LET r == read_sim_param(opts, env.order, sim_param)
       IN  /\ sim_param' = r.param
           /\ IF r.raised THEN Exit(<<"ValueError">>)
              ELSE pc' = "construct" /\ err' = err
    /\ UNCHANGED <<opts, env, input_times, input_map_names, output_map_names,
                   sim, clock>>

\* lines 278-287
Construct ==
    /\ pc = "construct"
    /\ sim' = SuperficialFlowSimulation(input_times, input_map_names,
                                        output_map_names, sim_param, env)
    /\ pc' = "run"
    /\ UNCHANGED <<opts, env, err, input_times, input_map_names,
                   output_map_names, sim_param, clock>>

\* line 288, sim.run(): Idle -> Running
Run ==
    /\ pc = "run"
    /\ clock.state = "Idle"
    /\ clock' = ClockStart(sim)
    /\ UNCHANGED <<opts, env, pc, err, input_times, input_map_names,
                   output_map_names, sim_param, sim>>

\* the run loop, steps 1 to 6, while current_time < end
ClockStep ==
    /\ pc = "run"
    /\ clock.state = "Running"
    /\ before(clock.current_time, sim.end_time)
    /\ \E dt_candidate \in 0..MaxSolverDt, diverges \in BOOLEAN :
          LET dt == clamp(sim, clock, dt_candidate)
          IN  IF NoneName \in {sim.input_maps["in_z"], sim.input_maps["in_n"]}
              THEN /\ clock' = [clock EXCEPT !.state = "Failed"]
                   /\ Exit(<<"ConfigurationError">>)
              ELSE IF ~(dt > 0)
              THEN /\ clock' = [clock EXCEPT !.state = "Failed"]
                   /\ Exit(<<"TimestepError">>)
              ELSE IF diverges
              THEN /\ clock' = [clock EXCEPT !.state = "Failed"]
                   /\ Exit(<<"SolverDivergenceError">>)
              ELSE /\ clock' = advance(clock, dt)
                   /\ UNCHANGED <<pc, err>>
    /\ UNCHANGED <<opts, env, input_times, input_map_names, output_map_names,
                   sim_param, sim>>

\* Flushing -> Running
ClockFlush ==
    /\ pc = "run"
    /\ clock.state = "Flushing"
    /\ clock' = flush(sim, clock, env.boundary_rule)
    /\ UNCHANGED <<opts, env, pc, err, input_times, input_map_names,
                   output_map_names, sim_param, sim>>

\* Running -> Complete when current_time >= end; sim.run() returns
ClockComplete ==
    /\ pc = "run"
    /\ clock.state = "Running"
    /\ ~before(clock.current_time, sim.end_time)
    /\ clock' = [clock EXCEPT !.state = "Complete"]
    /\ pc' = "done"
    /\ UNCHANGED <<opts, env, err, input_times, input_map_names,
                   output_map_names, sim_param, sim>>

Next ==
    \/ CheckLocation
    \/ ReadInputTime
    \/ ReadMapsNames
    \/ ReadSimParam
    \/ Construct
    \/ Run
    \/ ClockStep
    \/ ClockFlush
    \/ ClockComplete

-----------------------------------------------------------------------------
(* The option values and session answers the runs are started from *)

Empty == <<>>
hms_0_0_10 == <<"0", "0", ":", "0", "0", ":", "1", "0">>
hms_0_0_4 == <<"0", "0", ":", "0", "0", ":", "0", "4">>
hms_0_0_2 == <<"0", "0", ":", "0", "0", ":", "0", "2">>
hms_0_0_0 == <<"0", "0", ":", "0", "0", ":", "0", "0">>
hms_0_0_neg1 == <<"0", "0", ":", "0", "0", ":", "-", "1">>
hms_one_field == <<"1", "0">>
hms_0_0_25 == <<"0", "0", ":", "0", "0", ":", "2", "5">>
hms_0_0_20 == <<"0", "0", ":", "0", "0", ":", "2", "0">>
hms_two_fields == <<"1", ":", "0", "0">>
abs_2019_12_31_2359 == <<"2", "0", "1", "9", "-", "1", "2", "-", "3", "1", " ", "2", "3", ":", "5", "9">>
abs_2020_01_01_0000 == <<"2", "0", "2", "0", "-", "0", "1", "-", "0", "1", " ", "0", "0", ":", "0", "0">>
abs_2020_13_01 == <<"2", "0", "2", "0", "-", "1", "3", "-", "0", "1", " ", "0", "0", ":", "0", "0">>
abs_slashes == <<"0", "1", "/", "0", "1", "/", "2", "0", "2", "0">>
num_7 == <<"7">>
num_2_5 == <<"2", ".", "5">>
num_bad == <<"f", "a", "s", "t">>

\* the options in the order of their declaration, and in the reverse order
DeclOrder ==
    <<"in_z", "in_n", "in_h", "in_rain", "in_inf", "in_eff_por",
      "in_cap_pressure", "in_hyd_conduct", "in_q", "in_bctype", "in_bcval",
      "out_h", "out_wse", "hmin", "slmax", "cfl", "theta", "vrouting",
      "dtmax", "start_time", "end_time", "sim_duration", "record_step",
      "param_file", "stats_file">>
ReverseOrder == [i \in 1..Len(DeclOrder) |-> DeclOrder[Len(DeclOrder) + 1 - i]]

\* no option given but the required ones
BaseOpts ==
    [k \in OptKeys |->
        IF k \in TextOptKeys THEN (IF k = "record_step" THEN hms_0_0_2 ELSE Empty)
        ELSE IF k = "in_z" THEN "dem"
        ELSE IF k = "in_n" THEN "friction"
        ELSE ""]

With(o, upd) == [k \in OptKeys |-> IF k \in DOMAIN upd THEN upd[k] ELSE o[k]]

BaseEnv ==
    [latlong |-> FALSE, overwrite |-> FALSE, mapset |-> "user1",
     maps |-> {<<"dem", "user1">>, <<"friction", "user1">>}, stds |-> {},
     order |-> DeclOrder, series_offsets |-> {}, boundary_rule |-> "through"]

Start(o, e) ==
    /\ opts = o
    /\ env = e
    /\ pc = "main"
    /\ err = <<>>
    /\ input_times = input_times_default
    /\ input_map_names = input_map_names_default
    /\ output_map_names = output_map_names_default
    /\ sim_param = sim_param_default
    /\ sim = None
    /\ clock = ClockIdle

RecordSteps == {hms_0_0_10, hms_0_0_0, hms_0_0_neg1, hms_one_field}
StartTimes == {Empty, abs_2019_12_31_2359, abs_2020_01_01_0000, abs_2020_13_01}
EndTimes == {Empty, abs_2019_12_31_2359, abs_2020_01_01_0000, abs_slashes}
Durations == {Empty, hms_0_0_25, hms_0_0_20, hms_two_fields}

\* every combination of the time options
Init ==
    \E rs \in RecordSteps, st \in StartTimes, et \in EndTimes,
       du \in Durations, ll \in BOOLEAN :
        Start(With(BaseOpts, [record_step |-> rs, start_time |-> st,
                              end_time |-> et, sim_duration |-> du,
                              out_h |-> "depth"]),
              [BaseEnv EXCEPT !.latlong = ll])

Spec == Init /\ [][Next]_vars

\* every combination of the infiltration inputs, the outputs and what exists
InitMaps ==
    \E por \in {"", "porosity", "in_eff_por"},
       cap \in {"", "pressure", "in_cap_pressure"},
       hyd \in {"", "conductivity", "in_hyd_conduct"},
       inf \in {"", "rate", "in_f"},
       oh \in {"", "depth", "old"}, ow \in {"", "wse", "old"},
       ovw \in BOOLEAN,
       m \in SUBSET {<<"old", "user1">>}, sd \in SUBSET {<<"wse", "user1">>},
       ord \in {DeclOrder, ReverseOrder} :
        Start(With(BaseOpts, [sim_duration |-> hms_0_0_2, in_eff_por |-> por,
                              in_cap_pressure |-> cap, in_hyd_conduct |-> hyd,
                              in_inf |-> inf, out_h |-> oh, out_wse |-> ow]),
              [BaseEnv EXCEPT !.overwrite = ovw, !.maps = @ \cup m,
                              !.stds = sd, !.order = ord])

SpecMaps == InitMaps /\ [][Next]_vars

\* the fields a record_step is written with
Fields == {<<>>, <<"0">>, <<"0", "7">>, <<"5", "9">>, <<"6", "0">>,
           <<"2", "5">>, <<"-", "1">>, <<"x">>}

RECURSIVE join(_, _)
join(fields, sep) ==
    IF Len(fields) = 1 THEN fields[1]
    ELSE fields[1] \o <<sep>> \o join(Tail(fields), sep)

FieldLists == UNION {[1..n -> Fields] : n \in 1..MaxFields}

\* every record_step of up to MaxFields fields
InitParse ==
    \E fl \in FieldLists :
        Start(With(BaseOpts, [record_step |-> join(fl, ":"),
                              sim_duration |-> hms_0_0_10]),
              BaseEnv)

SpecParse == InitParse /\ [][Next]_vars

\* windows, record steps, largest steps and series the clock runs over
InitClock ==
    \E rs \in {hms_0_0_10, hms_0_0_4, hms_0_0_0},
       du \in {hms_0_0_25, hms_0_0_20},
       st \in {Empty, abs_2019_12_31_2359},
       dm \in {Empty, num_7, num_2_5, num_bad},
       so \in {{}, {4}, {4, 15}},
       br \in {"stop", "through"} :
        Start(With(BaseOpts, [record_step |-> rs, sim_duration |-> du,
                              start_time |-> st, dtmax |-> dm,
                              out_h |-> "depth"]),
              [BaseEnv EXCEPT !.series_offsets = so, !.boundary_rule = br])

SpecClock == InitClock /\ [][Next]_vars

-----------------------------------------------------------------------------
(* Vocabulary of the properties *)

Given(k) == opts[k] # <<>>
Shape == {k \in {"start_time", "end_time", "sim_duration"} : Given(k)}
AcceptedShapes == {{"sim_duration"}, {"start_time", "sim_duration"},
                   {"start_time", "end_time"}}

\* the messages read_input_time ends the program with
TimeMessages == {rel_err_msg("record_step"), rel_err_msg("sim_duration"),
                 abs_err_msg("start_time"), abs_err_msg("end_time"),
                 comb_err_msg}

\* read_input_time has been executed
TimesRead == pc \notin {"main", "read_input_time"} /\ err # latlong_msg
\* ... and has returned
TimesReturned == TimesRead /\ err \notin TimeMessages
\* read_maps_names has been executed
MapsRead == TimesReturned /\ pc # "read_maps_names"

\* main() is at or past the construction of the simulation
AtSimulation == pc \in {"construct", "run", "done"} \/ sim # None
                    \/ clock.state # "Idle"

WellFormedTimes ==
    /\ opts["record_step"] \in {hms_0_0_10, hms_0_0_0}
    /\ opts["start_time"] \in {Empty, abs_2019_12_31_2359, abs_2020_01_01_0000}
    /\ opts["end_time"] \in {Empty, abs_2019_12_31_2359, abs_2020_01_01_0000}
    /\ opts["sim_duration"] \in {Empty, hms_0_0_25, hms_0_0_20}

Zero == <<0, 0>>

-----------------------------------------------------------------------------
(* C1 *)

\* C1: with well-formed time options, read_input_time accepts exactly the
\* shapes {sim_duration}, {start_time, sim_duration}, {start_time, end_time};
\* on each of the five other shapes the program ends with the combination
\* message and the simulation is never built nor run.
C1_AcceptedCombinations ==
    (WellFormedTimes /\ TimesRead) =>
        IF Shape \in AcceptedShapes
        THEN err \notin TimeMessages
        ELSE pc = "exit" /\ err = comb_err_msg /\ ~AtSimulation

C1_Witness ==
    /\ WellFormedTimes
    /\ Shape = {"start_time", "end_time", "sim_duration"}
    /\ pc = "exit"
    /\ err = comb_err_msg

-----------------------------------------------------------------------------
(* C7 *)

\* C7 as stated: once read_input_time has returned, start, end and duration
\* are all set and end = start + duration; with sim_duration alone start is
\* datetime.min.
C7_WindowComplete ==
    TimesReturned =>
        /\ input_times.start # None
        /\ input_times.end # None
        /\ input_times.duration # None
        /\ input_times.end = datetime_add(input_times.start, input_times.duration)
        /\ (Shape = {"sim_duration"} => input_times.start = datetime_min)

\* C7 amended: once read_input_time has returned, start and duration are
\* set; end is set exactly when end_time was given, and then
\* end = start + duration; when sim_duration was given end is left None;
\* with sim_duration alone start is datetime.min.
C7_WindowResolved ==
    TimesReturned =>
        /\ input_times.start # None
        /\ input_times.duration # None
        /\ (input_times.end # None <=> Given("end_time"))
        /\ (input_times.end # None =>
               input_times.end =
                   datetime_add(input_times.start, input_times.duration))
        /\ (Shape = {"sim_duration"} => input_times.start = datetime_min)

C7_Witness ==
    /\ TimesReturned
    /\ opts["start_time"] = abs_2019_12_31_2359
    /\ opts["end_time"] = abs_2020_01_01_0000
    /\ input_times.duration = <<0, 60>>
    /\ pc = "done"

-----------------------------------------------------------------------------
(* C10 *)

\* C10: when start_time and end_time are given, well-formed, and end_time is
\* earlier than start_time, read_input_time ends the program; a negative
\* duration is never stored in input_times nor passed to the simulation.
C10_NegativeDurationRejected ==
    /\ (/\ TimesRead
        /\ opts["record_step"] \in {hms_0_0_10, hms_0_0_0}
        /\ opts["start_time"] = abs_2020_01_01_0000
        /\ opts["end_time"] = abs_2019_12_31_2359
        /\ ~Given("sim_duration"))
       => (pc = "exit" /\ err \in TimeMessages)
    /\ (input_times.duration # None => ~before(input_times.duration, Zero))
    /\ (sim # None => ~before(sim.sim_duration, Zero))

-----------------------------------------------------------------------------
(* C6 *)

\* C6: a record_step that parses to a zero or a negative duration ends the
\* program in read_input_time, so the rec_step handed to the simulation is
\* always > 0.
C6_RecordStepPositive ==
    /\ (TimesRead /\ opts["record_step"] \in {hms_0_0_0, hms_0_0_neg1})
       => (pc = "exit" /\ err \in TimeMessages)
    /\ (sim # None => before(Zero, sim.record_step))

-----------------------------------------------------------------------------
(* C5 *)

\* what each written field is: an integer or not
IsInteger(f) == f \notin {<<>>, <<"x">>}
IntegerOf(f) ==
    CASE f = <<"0">> -> 0
      [] f = <<"0", "7">> -> 7
      [] f = <<"5", "9">> -> 59
      [] f = <<"6", "0">> -> 60
      [] f = <<"2", "5">> -> 25
      [] f = <<"-", "1">> -> 0 - 1

WellFormedHMS(fl) ==
    /\ Len(fl) = 3
    /\ \A i \in 1..3 : IsInteger(fl[i])
    /\ IntegerOf(fl[1]) >= 0
    /\ IntegerOf(fl[2]) \in 0..59
    /\ IntegerOf(fl[3]) \in 0..59

\* C5: str_to_timedelta fails on every string that is not exactly three
\* integer fields with hours >= 0 and minutes, seconds in [0,59], and
\* returns hours*3600 + minutes*60 + seconds seconds on every other one.
C5_ExactlyThreeFields ==
    TimesRead =>
        \A fl \in FieldLists :
            opts["record_step"] = join(fl, ":") =>
                IF WellFormedHMS(fl)
                THEN /\ err # rel_err_msg("record_step")
                     /\ total_seconds(input_times.rec_step) =
                            IntegerOf(fl[1]) * 3600 + IntegerOf(fl[2]) * 60
                                + IntegerOf(fl[3])
                ELSE /\ pc = "exit"
                     /\ err = rel_err_msg("record_step")

-----------------------------------------------------------------------------
(* C2, C3, C4, C9 *)

GaKeys == {"in_eff_por", "in_cap_pressure", "in_hyd_conduct"}
GaGiven == {k \in GaKeys : opts[k] # ""}
GaMessages == {incompatible_msg, inclusive_msg}
ExistsMessages == {exists_msg(opts[k]) : k \in {"out_h", "out_wse"}}

\* the option names data that exists and may not be overwritten
Conflicting(k) ==
    /\ opts[k] # ""
    /\ <<opts[k], env.mapset>> \in env.maps \cup env.stds
    /\ ~env.overwrite
Conflict == \E k \in {"out_h", "out_wse"} : Conflicting(k)

\* C2: read_maps_names ends the program whenever some but not all of the
\* three Green-Ampt inputs are given, and raises no Green-Ampt inclusivity
\* error when all three or none are given.
C2_MutuallyInclusive ==
    MapsRead =>
        IF GaGiven \notin {{}, GaKeys}
        THEN pc = "exit" /\ err \in GaMessages \cup ExistsMessages
        ELSE err # inclusive_msg

\* C3: whenever the three Green-Ampt inputs are given together with in_inf,
\* read_maps_names ends the program and the simulation is never built nor
\* run.
C3_ModelsExclusive ==
    (GaGiven = GaKeys /\ opts["in_inf"] # "") =>
        /\ ~AtSimulation
        /\ (MapsRead => pc = "exit")

\* C4: whenever out_h or out_wse names an existing map or series and
\* overwriting is not allowed, the program ends before the simulation is
\* built or run, and the conflicting name is never stored in
\* output_map_names.
C4_OverwriteProtection ==
    Conflict =>
        /\ ~AtSimulation
        /\ (MapsRead => pc = "exit")
        /\ \A k \in {"out_h", "out_wse"} :
              Conflicting(k) => output_map_names[k] = NoneName

C4_Witness ==
    /\ Conflicting("out_wse")
    /\ opts["out_wse"] = "wse"
    /\ output_map_names["out_h"] = "depth"
    /\ pc = "exit"
    /\ err = exists_msg("wse")

\* the inputs break the Green-Ampt rule
GaViolated ==
    \/ GaGiven \notin {{}, GaKeys}
    \/ (GaGiven = GaKeys /\ opts["in_inf"] # "")

\* C9 as stated: when the inputs break the Green-Ampt rule the program never
\* ends with the output-exists message.
C9_GreenAmptFirst == GaViolated => err \notin ExistsMessages

\* C9 amended: the output-exists check of every given output is made in the
\* loop over the options, before the Green-Ampt checks; a run in which an
\* output names existing data that may not be overwritten ends with the
\* output-exists message, never with a Green-Ampt message, whatever the
\* infiltration inputs are.
C9_OutputCheckFirst ==
    (Conflict /\ MapsRead) => (pc = "exit" /\ err \in ExistsMessages)

C9_Witness ==
    /\ Conflict
    /\ opts["in_hyd_conduct"] = "in_hyd_conduct"
    /\ opts["in_eff_por"] = ""
    /\ MapsRead
    /\ err = exists_msg("old")

-----------------------------------------------------------------------------
(* C8 *)

\* the k-th record boundary, start + k * record_step
Boundary(k) ==
    datetime_add(sim.start_time,
                 timedelta(0, 0, k * total_seconds(sim.record_step)))

Flushed(b) == \E i \in 1..Len(clock.flushed) : clock.flushed[i] = b

\* the record boundaries the clock is at or past
BoundariesPassed ==
    IF before(Zero, sim.record_step)
           /\ ~before(clock.current_time, sim.start_time)
    THEN 1..(gap(sim.start_time, clock.current_time)
                \div total_seconds(sim.record_step))
    ELSE {}

\* in every state of the run loop the clock is not past the next record
\* boundary, every boundary it is at or past was flushed when the clock
\* stood exactly on it, and Complete is entered only at or after end
C8_NoOvershoot ==
    clock.state # "Idle" =>
        /\ ~before(clock.next_record_boundary, clock.current_time)
        /\ (clock.step_count > 0 => clock.last_step_dt > 0)
        /\ (clock.state = "Flushing" =>
               clock.current_time = clock.next_record_boundary)
        /\ (clock.state = "Complete" =>
               ~before(clock.current_time, sim.end_time))
        /\ \A i \in 1..Len(clock.flushed) : clock.flushed[i] = Boundary(i)
        /\ \A k \in BoundariesPassed :
              \/ Flushed(Boundary(k))
              \/ (clock.state = "Flushing" /\ clock.current_time = Boundary(k))

\* every step is taken while current_time < end, with
\* 0 < dt <= next_record_boundary - current_time
C8_StepClamped ==
    clock'.step_count # clock.step_count =>
        /\ clock.state = "Running"
        /\ before(clock.current_time, sim.end_time)
        /\ clock'.last_step_dt > 0
        /\ clock'.last_step_dt
              <= gap(clock.current_time, clock.next_record_boundary)
        /\ clock'.current_time =
              datetime_add(clock.current_time, <<0, clock'.last_step_dt>>)
        /\ clock'.next_record_boundary = clock.next_record_boundary

\* C8: every step of the run loop has dt > 0 and
\* dt <= next_record_boundary - current_time, so current_time never exceeds
\* next_record_boundary and every record boundary is reached with exact
\* equality; the loop is Complete when current_time >= end.
C8_ClockClamp == []C8_NoOvershoot /\ [][C8_StepClamped]_vars

\* record_step 10 s and a suggested dt of 7 s from a boundary: 7 s then 3 s
C8_Witness ==
    /\ clock.state = "Flushing"
    /\ sim.record_step = <<0, 10>>
    /\ sim.sim_param.dtmax = 7000
    /\ clock.step_count = 2
    /\ clock.last_step_dt = 3
    /\ clock.current_time = Boundary(1)

=============================================================================
